---- MODULE Spec2Model ----
(***************************************************************************)
(* Model of postgresql_notification_listener.NotificationListener          *)
(* (src/postgresql_notification_listener/listener.py): the callback        *)
(* registry `callbacks`, the LISTEN/UNLISTEN commands it sends over the     *)
(* connection, and the dispatch loop of start().                            *)
(*                                                                          *)
(* The listener runs on one thread.  A registry operation is one atomic     *)
(* step; it is called by the host while no dispatch is running (the call    *)
(* stack is empty) or by the callback that is executing (top of the stack). *)
(* A callback is opaque: once invoked it may call any registry operation    *)
(* any number of times and then returns or raises.                          *)
(***************************************************************************)
EXTENDS Integers, Sequences, FiniteSets, TLC

(* ------------------------------ bounds --------------------------------- *)

\* number of stream events one call of start() receives at most
MaxEvents == 2

Channels == {"ch1", "ch2"}

Callbacks == {"f", "g"}

Payloads == {"", "data"}

(* ------------------- the dict behind self.callbacks -------------------- *)

\* self.callbacks[channel] = value, for a channel that is not a key:
\* a dict keeps its keys in insertion order
DictInsert(r, channel, value) ==
    [r EXCEPT !.callbacks = [c \in DOMAIN r.callbacks \cup {channel} |->
                                IF c = channel THEN value ELSE r.callbacks[c]],
              !.key_order = Append(@, channel)]

\* del self.callbacks[channel], for a channel that is a key
DictDelete(r, channel) ==
    [r EXCEPT !.callbacks = [c \in DOMAIN r.callbacks \ {channel} |-> r.callbacks[c]],
              !.key_order = SelectSeq(@, LAMBDA k : k # channel)]

\* list(self.callbacks): the keys in insertion order
KeyList(r) == r.key_order

\* variant: the iteration ends after the first key
dictiter_next_first(order, used, pos, dirty) ==
    IF pos = 0 /\ Len(order) > 0
    THEN {[kind |-> "key", key |-> order[1]]}
    ELSE {[kind |-> "StopIteration", key |-> ""]}

\* The outcomes of next(iterator) in `for channel in self.callbacks`.
\* A dict whose size differs from the size it had when the iterator was made
\* raises RuntimeError.  An untouched dict yields its keys in order.  After
\* keys were deleted and inserted back to the same size the language leaves
\* the result open: the iterator may raise, may stop, or may yield any key,
\* but it never yields more keys than the dict had when it was made.
dictiter_next(order, used, pos, dirty) ==
    IF Len(order) # used
    THEN {[kind |-> "RuntimeError", key |-> ""]}
    ELSE IF ~dirty
    THEN IF pos < Len(order)
         THEN {[kind |-> "key", key |-> order[pos + 1]]}
         ELSE {[kind |-> "StopIteration", key |-> ""]}
    ELSE {[kind |-> "RuntimeError", key |-> ""], [kind |-> "StopIteration", key |-> ""]}
         \cup {[kind |-> "key", key |-> order[i]] : i \in {j \in DOMAIN order : pos < used}}

(* ------------------------------- state --------------------------------- *)

VARIABLES
    callbacks,          \* self.callbacks: channel -> set of callbacks (DOMAIN = its keys)
    key_order,          \* the keys of self.callbacks in insertion order
    listening,          \* channels the source has an active subscription for
    closed,             \* self.connection.closed
    last_notification,  \* self.last_notification: <<>> (None) or <<channel, payload>>
    stack,              \* call stack of the thread, outermost first
    di_used,            \* execute_all_callbacks: dict size when the iterator was made
    di_pos,             \* execute_all_callbacks: keys the iterator has yielded
    di_dirty,           \* execute_all_callbacks: keys were inserted or deleted since
    cur_channel,        \* execute_callbacks: its argument
    copy,               \* execute_callbacks: self.callbacks[channel].copy()
    visited,            \* execute_callbacks: members of the copy already iterated
    cur_cb,             \* the callback that is executing
    result,             \* how the last call of start/execute_* by the host ended
    \* history variables (observations, not program state)
    src_failed,         \* a command to an open connection, or its stream, has failed
    last_op,            \* the registry operation called in the last step, with its outcome
    sent,               \* the commands that operation sent to the source
                        \* (both recorded when observe = "ops")
    last_event,         \* the last stream event start() received: <<>> or <<channel, payload>>
    begin_set,          \* the channel's registry set when the current dispatch began
    invoked,            \* invocations per callback in the current dispatch
    nevents,            \* stream events this call of start has received
    observe,            \* which of the histories below is recorded: "none", "ops", "pairs"
    watched,            \* the (channel, callback) this call of start is observed on, or <<>>
    status,             \* what happened to the watched pair in this call of start
    calls,              \* invocations of the watched pair in this phase of start, while steady
    cb_calls,           \* invocations of the watched callback in the initial pass, any channel
    ev_watched,         \* stream events of the watched channel this call of start has received
    pass_mutated,       \* the registry was changed during the initial pass
    pass_done,          \* the initial pass has returned and no event has arrived yet
    due,                \* the watched pair was "new" when the current event arrived
                        \* and has not been invoked for it yet
    quiet,              \* start was called with initial_run = False and has received
                        \* no event yet
    after_close,        \* start was called on a closed connection (recorded when
                        \* observe = "ops")
    cut_short,          \* the last call ended in a callback error with callbacks left to call
    scope               \* the host's `with listener:` block: "none", "inside" or "left"

regvars == <<callbacks, key_order, listening>>

itervars == <<di_used, di_pos, di_dirty>>

loopvars == <<cur_channel, copy, visited, begin_set, invoked>>

opvars == <<last_op, sent>>

runvars == <<nevents, watched, status, calls, cb_calls, ev_watched, pass_mutated,
             pass_done, due, quiet, after_close>>

vars == <<regvars, closed, last_notification, stack, itervars, loopvars, cur_cb, result,
          src_failed, opvars, last_event, runvars, cut_short, observe, scope>>

Pairs == Channels \X Callbacks

None == <<>>

NoOp == [name |-> "none", channel |-> "", callback |-> "", error |-> "none"]

Top == IF stack = <<>> THEN "host" ELSE stack[Len(stack)]

InStart == stack # <<>> /\ stack[1] = "start"

\* start() is in its initial pass
InInitialPass == Len(stack) >= 2 /\ stack[1] = "start" /\ stack[2] = "execute_all_callbacks"

\* start() is dispatching a stream event
InEvent == Len(stack) >= 2 /\ stack[1] = "start" /\ stack[2] = "execute_callbacks"

\* an iterator of `for channel in self.callbacks` is alive
InAll == \E i \in DOMAIN stack : stack[i] = "execute_all_callbacks"

Registered(c, f) == c \in DOMAIN callbacks /\ f \in callbacks[c]

\* the registry as the operations below read and write it
Registry ==
    [callbacks |-> callbacks, key_order |-> key_order, listening |-> listening,
     sent |-> <<>>, error |-> "none"]

(* -------------------------- registry operations ------------------------ *)

\* self.connection.execute(LISTEN / UNLISTEN channel); ok: the source accepts it
execute(r, command, channel, ok) ==
    IF closed \/ ~ok
    THEN [r EXCEPT !.error = "OperationalError"]
    ELSE [r EXCEPT !.sent = Append(@, <<command, channel>>),
                   !.listening = IF command = "LISTEN" THEN @ \cup {channel}
                                 ELSE @ \ {channel}]

\* variant: LISTEN is sent whether or not the channel is a key
get_or_create_listening_channel_relisten(r, channel, ok) ==
    IF channel \notin DOMAIN r.callbacks
    THEN execute(DictInsert(r, channel, {}), "LISTEN", channel, ok)
    ELSE execute(r, "LISTEN", channel, ok)

get_or_create_listening_channel(r, channel, ok) ==
    IF channel \notin DOMAIN r.callbacks
    THEN execute(DictInsert(r, channel, {}), "LISTEN", channel, ok)
    ELSE r

subscribe_to_channel(r, channel, callback, ok) ==
    LET r1 == get_or_create_listening_channel(r, channel, ok)
    IN  IF r1.error # "none" THEN r1
        ELSE [r1 EXCEPT !.callbacks[channel] = @ \cup {callback}]

\* variant: a channel that is no key is dropped silently (pop with a default)
unsubscribe_channel_quiet(r, channel, ok) ==
    IF channel \notin DOMAIN r.callbacks
    THEN execute(r, "UNLISTEN", channel, ok)
    ELSE execute(DictDelete(r, channel), "UNLISTEN", channel, ok)

unsubscribe_channel(r, channel, ok) ==
    IF channel \notin DOMAIN r.callbacks
    THEN [r EXCEPT !.error = "KeyError"]
    ELSE execute(DictDelete(r, channel), "UNLISTEN", channel, ok)

\* variant: the channel is kept when its last callback is removed
unsubscribe_from_channel_keep(r, channel, callback, ok) ==
    IF channel \notin DOMAIN r.callbacks \/ callback \notin r.callbacks[channel]
    THEN [r EXCEPT !.error = "KeyError"]
    ELSE [r EXCEPT !.callbacks[channel] = @ \ {callback}]

\* variant: the callback is looked up but not removed
unsubscribe_from_channel_stale(r, channel, callback, ok) ==
    IF channel \notin DOMAIN r.callbacks \/ callback \notin r.callbacks[channel]
    THEN [r EXCEPT !.error = "KeyError"]
    ELSE r

unsubscribe_from_channel(r, channel, callback, ok) ==
    IF channel \notin DOMAIN r.callbacks \/ callback \notin r.callbacks[channel]
    THEN [r EXCEPT !.error = "KeyError"]
    ELSE LET r1 == [r EXCEPT !.callbacks[channel] = @ \ {callback}]
         IN  IF r1.callbacks[channel] = {}
             THEN unsubscribe_channel(r1, channel, ok)
             ELSE r1

\* the loop of unsubscribe_all over list(self.callbacks); the fail_at-th
\* command is the one the source rejects (0: none)
RECURSIVE unsubscribe_each(_, _, _, _)
unsubscribe_each(r, channels, i, fail_at) ==
    IF channels = <<>> THEN r
    ELSE LET r1 == unsubscribe_channel(r, Head(channels), i # fail_at)
         IN  IF r1.error # "none" THEN r1
             ELSE unsubscribe_each(r1, Tail(channels), i + 1, fail_at)

\* variant: the loop runs over the dict itself, not over list(self.callbacks):
\* the deletion of the first key ends the iteration of a longer dict in an error
unsubscribe_all_live(r, fail_at) ==
    IF Len(KeyList(r)) <= 1
    THEN unsubscribe_each(r, KeyList(r), 1, fail_at)
    ELSE LET r1 == unsubscribe_channel(r, Head(KeyList(r)), 1 # fail_at)
         IN  IF r1.error # "none" THEN r1 ELSE [r1 EXCEPT !.error = "RuntimeError"]

unsubscribe_all(r, fail_at) == unsubscribe_each(r, KeyList(r), 1, fail_at)

(* ------------------------- history bookkeeping ------------------------- *)

NoInvoked == [f \in Callbacks |-> 0]

\* the call is unsubscribe_from_channel(c, f) made by f while it handles an
\* event of channel c
SelfUnsubscribe(name, c, f) ==
    /\ name = "unsubscribe_from_channel"
    /\ InEvent /\ Top = "callback"
    /\ c = cur_channel /\ f = cur_cb

\* the call name(c, f) is about the watched pair
Covers(name, c, f) ==
    /\ watched # None
    /\ \/ name = "unsubscribe_all"
       \/ name = "unsubscribe_channel" /\ c = watched[1]
       \/ name \in {"subscribe_to_channel", "unsubscribe_from_channel"}
          /\ <<c, f>> = watched

\* status of the watched pair after the call name(c, f) that ended with error e:
\*   "steady"        registered when start was called, no call has unsubscribed it
\*   "new"           subscribed by a callback during an event, not unsubscribed since
\*   "self_removed"  unsubscribed itself during an event, not subscribed since
\*   "other"         anything else
StatusAfter(name, c, f, e) ==
    IF ~Covers(name, c, f) \/ e = "KeyError" THEN status
    ELSE IF name = "subscribe_to_channel"
    THEN IF e = "none" /\ status \in {"other", "self_removed"}
         THEN (IF InEvent THEN "new" ELSE "other")
         ELSE status
    ELSE IF name = "unsubscribe_from_channel"
    THEN (IF e = "none" /\ SelfUnsubscribe(name, c, f) THEN "self_removed" ELSE "other")
    ELSE IF status = "self_removed" THEN status ELSE "other"

\* a step that is no registry operation
NoOperation == last_op' = NoOp /\ sent' = <<>>

\* the history of a call of start ends with the call
EndOfCall ==
    /\ nevents' = 0
    /\ watched' = None
    /\ status' = "other"
    /\ calls' = 0
    /\ cb_calls' = 0
    /\ ev_watched' = 0
    /\ pass_mutated' = FALSE
    /\ pass_done' = FALSE
    /\ due' = FALSE
    /\ quiet' = FALSE
    /\ after_close' = FALSE

(* ------------------ calls of the registry operations -------------------- *)

\* the host calls while nothing runs; a callback calls while it executes
MayCall == Top \in {"host", "callback"}

\* a call by the host: how the call before it ended is no longer of interest
Forgotten ==
    /\ result' = IF Top = "host" THEN "none" ELSE result
    /\ cut_short' = IF Top = "host" THEN FALSE ELSE cut_short

\* the call name(c, f) leaves the registry as r
Returns(name, c, f, r) ==
    /\ callbacks' = r.callbacks
    /\ key_order' = r.key_order
    /\ listening' = r.listening
    /\ sent' = IF observe = "ops" THEN r.sent ELSE <<>>
    /\ last_op' = IF observe = "ops"
                  THEN [name |-> name, channel |-> c, callback |-> f, error |-> r.error]
                  ELSE NoOp
    /\ src_failed' = (src_failed \/ (r.error = "OperationalError" /\ ~closed))
    /\ status' = StatusAfter(name, c, f, r.error)
    /\ di_dirty' = (di_dirty \/ (InAll /\ r.key_order # key_order))
    /\ pass_mutated' = (pass_mutated \/
                        (InInitialPass /\ watched # None
                         /\ (r.callbacks # callbacks \/ r.key_order # key_order)))
    /\ calls' = IF status' = "steady" THEN calls ELSE 0
    /\ Forgotten
    /\ UNCHANGED <<closed, last_notification, stack, di_used, di_pos, loopvars, cur_cb,
                   last_event, nevents, watched, cb_calls, ev_watched, pass_done, due,
                   quiet, after_close, observe, scope>>

Subscribe(c, f, ok) ==
    /\ MayCall
    /\ Returns("subscribe_to_channel", c, f, subscribe_to_channel(Registry, c, f, ok))

UnsubscribeOne(c, f, ok) ==
    /\ MayCall
    /\ Returns("unsubscribe_from_channel", c, f,
               unsubscribe_from_channel(Registry, c, f, ok))

UnsubscribeChannel(c, ok) ==
    /\ MayCall
    /\ Returns("unsubscribe_channel", c, "", unsubscribe_channel(Registry, c, ok))

UnsubscribeAll(fail_at) ==
    /\ MayCall
    /\ Returns("unsubscribe_all", "", "", unsubscribe_all(Registry, fail_at))

\* close(): the connection is closed, and with it the session and its subscriptions
Close ==
    /\ MayCall
    /\ closed' = TRUE
    /\ listening' = {}
    /\ NoOperation
    /\ Forgotten
    /\ UNCHANGED <<callbacks, key_order, last_notification, stack, itervars, loopvars,
                   cur_cb, src_failed, last_event, runvars, observe, scope>>

\* with listener: ... is entered by the host (__enter__ returns self)
ContextEnter ==
    /\ Top = "host"
    /\ scope # "inside"
    /\ scope' = "inside"
    /\ NoOperation
    /\ Forgotten
    /\ UNCHANGED <<regvars, closed, last_notification, stack, itervars, loopvars, cur_cb,
                   src_failed, last_event, runvars, observe>>

\* what may leave the block: its normal end, or the error the last call of
\* start or execute_* ended in and the block did not catch
Leaving == {"None"} \cup ({result} \cap {"CallbackError", "OperationalError", "RuntimeError"})

\* variant: the connection is closed only when the block ends without an error
ContextExit_clean(exc_type) ==
    /\ Top = "host"
    /\ scope = "inside"
    /\ exc_type \in Leaving
    /\ scope' = "left"
    /\ closed' = (closed \/ exc_type = "None")
    /\ listening' = IF exc_type = "None" THEN {} ELSE listening
    /\ result' = IF exc_type = "None" THEN "none" ELSE result
    /\ NoOperation
    /\ UNCHANGED <<callbacks, key_order, last_notification, stack, itervars, loopvars,
                   cur_cb, src_failed, last_event, runvars, cut_short, observe>>

\* the block is left with exc_type: __exit__ calls close() and returns None, so
\* an error goes on to the caller of the block
ContextExit(exc_type) ==
    /\ Top = "host"
    /\ scope = "inside"
    /\ exc_type \in Leaving
    /\ scope' = "left"
    /\ closed' = TRUE
    /\ listening' = {}
    /\ result' = IF exc_type = "None" THEN "none" ELSE result
    /\ NoOperation
    /\ UNCHANGED <<callbacks, key_order, last_notification, stack, itervars, loopvars,
                   cur_cb, src_failed, last_event, runvars, cut_short, observe>>

(* ------------------------------ dispatch -------------------------------- *)

Pop(st) == SubSeq(st, 1, Len(st) - 1)

\* variant: the callbacks of every channel are taken
SnapshotOf_all(channel) == UNION {callbacks[c] : c \in DOMAIN callbacks}

\* variant: a notification for the channel of the one before it is ignored
SnapshotOf_dedup(channel) ==
    IF last_notification # None /\ last_notification[1] = channel
    THEN {}
    ELSE callbacks[channel]

\* the set execute_callbacks(channel) iterates: a copy made when its loop starts
SnapshotOf(channel) == callbacks[channel]

\* variant: the loop iterates the registry's set itself, not a copy
IterSet_live == IF cur_channel \in DOMAIN callbacks THEN callbacks[cur_channel] ELSE {}

\* the set the loop of execute_callbacks iterates
IterSet == copy

\* what the loop still has to iterate
Remaining == IterSet \ visited

\* the locals of execute_callbacks are gone
LoopGone ==
    /\ cur_channel' = ""
    /\ copy' = {}
    /\ visited' = {}
    /\ begin_set' = {}
    /\ invoked' = NoInvoked

\* the iterator of execute_all_callbacks is gone
IterGone == di_used' = 0 /\ di_pos' = 0 /\ di_dirty' = FALSE

\* the outermost call returns or goes on
Outcome(st) == IF st = <<>> THEN "returned" ELSE "running"

\* variant: no check that the channel is a key; looking up a missing channel
\* raises KeyError
Enter_strict(channel, st) ==
    IF channel \notin DOMAIN callbacks
    THEN /\ stack' = <<>>
         /\ result' = "KeyError"
         /\ UNCHANGED loopvars
    ELSE /\ stack' = Append(st, "execute_callbacks")
         /\ result' = "running"
         /\ cur_channel' = channel
         /\ copy' = SnapshotOf(channel)
         /\ visited' = {}
         /\ begin_set' = callbacks[channel]
         /\ invoked' = NoInvoked

\* execute_callbacks(channel) is entered from a frame that leaves the stack as st
Enter(channel, st) ==
    IF channel \notin DOMAIN callbacks
    THEN /\ stack' = st
         /\ result' = Outcome(st)
         /\ UNCHANGED loopvars
    ELSE /\ stack' = Append(st, "execute_callbacks")
         /\ result' = "running"
         /\ cur_channel' = channel
         /\ copy' = SnapshotOf(channel)
         /\ visited' = {}
         /\ begin_set' = callbacks[channel]
         /\ invoked' = NoInvoked

\* the pairs a call of start may be observed on
Watchable == IF observe = "pairs" THEN Pairs ELSE {None}

\* variant: the initial pass runs whatever initial_run is
Start_always(initial_run, p) ==
    /\ Top = "host"
    /\ result' = "running"
    /\ stack' = <<"start", "execute_all_callbacks">>
    /\ di_used' = Len(key_order)
    /\ di_pos' = 0
    /\ di_dirty' = FALSE
    /\ watched' = p
    /\ status' = IF p # None /\ Registered(p[1], p[2]) THEN "steady" ELSE "other"
    /\ nevents' = 0
    /\ calls' = 0
    /\ cb_calls' = 0
    /\ ev_watched' = 0
    /\ pass_mutated' = FALSE
    /\ pass_done' = FALSE
    /\ due' = FALSE
    /\ quiet' = ~initial_run
    /\ after_close' = (closed /\ observe = "ops")
    /\ cut_short' = FALSE
    /\ NoOperation
    /\ UNCHANGED <<regvars, closed, last_notification, loopvars, cur_cb, src_failed,
                   last_event, observe, scope>>

\* the host calls start(initial_run); the call is observed on pair p
Start(initial_run, p) ==
    /\ Top = "host"
    /\ result' = "running"
    /\ IF initial_run
       THEN /\ stack' = <<"start", "execute_all_callbacks">>
            /\ di_used' = Len(key_order)
            /\ di_pos' = 0
            /\ di_dirty' = FALSE
       ELSE /\ stack' = <<"start">>
            /\ UNCHANGED itervars
    /\ watched' = p
    /\ status' = IF p # None /\ Registered(p[1], p[2]) THEN "steady" ELSE "other"
    /\ nevents' = 0
    /\ calls' = 0
    /\ cb_calls' = 0
    /\ ev_watched' = 0
    /\ pass_mutated' = FALSE
    /\ pass_done' = FALSE
    /\ due' = FALSE
    /\ quiet' = ~initial_run
    /\ after_close' = (closed /\ observe = "ops")
    /\ cut_short' = FALSE
    /\ NoOperation
    /\ UNCHANGED <<regvars, closed, last_notification, loopvars, cur_cb, src_failed,
                   last_event, observe, scope>>

\* the host calls execute_all_callbacks()
ExecuteAll ==
    /\ Top = "host"
    /\ result' = "running"
    /\ stack' = <<"execute_all_callbacks">>
    /\ di_used' = Len(key_order)
    /\ di_pos' = 0
    /\ di_dirty' = FALSE
    /\ cut_short' = FALSE
    /\ NoOperation
    /\ UNCHANGED <<regvars, closed, last_notification, loopvars, cur_cb, src_failed,
                   last_event, runvars, observe, scope>>

\* the host calls execute_callbacks(channel)
Execute(channel) ==
    /\ Top = "host"
    /\ Enter(channel, <<>>)
    /\ cut_short' = FALSE
    /\ NoOperation
    /\ UNCHANGED <<regvars, closed, last_notification, itervars, cur_cb, src_failed,
                   last_event, runvars, observe, scope>>

\* execute_all_callbacks: one turn of `for channel in self.callbacks`
AllNext ==
    /\ Top = "execute_all_callbacks"
    /\ \E n \in dictiter_next(key_order, di_used, di_pos, di_dirty) :
          \/ /\ n.kind = "RuntimeError"
             /\ stack' = <<>>
             /\ result' = "RuntimeError"
             /\ IterGone
             /\ EndOfCall
             /\ UNCHANGED loopvars
          \/ /\ n.kind = "StopIteration"
             /\ stack' = Pop(stack)
             /\ result' = Outcome(Pop(stack))
             /\ IterGone
             /\ pass_done' = (InStart /\ watched # None)
             /\ UNCHANGED <<loopvars, nevents, watched, status, calls, cb_calls,
                            ev_watched, pass_mutated, due, quiet, after_close>>
          \/ /\ n.kind = "key"
             /\ di_pos' = di_pos + 1
             /\ Enter(n.key, stack)
             /\ UNCHANGED <<di_used, di_dirty, runvars>>
    /\ NoOperation
    /\ UNCHANGED <<regvars, closed, last_notification, cur_cb, src_failed, last_event,
                   cut_short, observe, scope>>

\* execute_callbacks: the loop picks the next member of the copy and calls it
Invoke(f) ==
    /\ Top = "execute_callbacks"
    /\ f \in Remaining
    /\ visited' = visited \cup {f}
    /\ cur_cb' = f
    /\ stack' = Append(stack, "callback")
    /\ invoked' = [invoked EXCEPT ![f] = @ + 1]
    /\ calls' = IF watched = <<cur_channel, f>> /\ status = "steady"
                THEN calls + 1 ELSE calls
    /\ cb_calls' = IF watched # None /\ watched[2] = f /\ InInitialPass
                   THEN cb_calls + 1 ELSE cb_calls
    /\ due' = (due /\ watched # <<cur_channel, f>>)
    /\ NoOperation
    /\ UNCHANGED <<regvars, closed, last_notification, itervars, cur_channel, copy,
                   begin_set, result, src_failed, last_event, nevents, watched, status,
                   ev_watched, pass_mutated, pass_done, quiet, after_close, cut_short,
                   observe, scope>>

\* execute_callbacks: the loop is exhausted and the function returns
ExecuteDone ==
    /\ Top = "execute_callbacks"
    /\ Remaining = {}
    /\ stack' = Pop(stack)
    /\ result' = Outcome(Pop(stack))
    /\ LoopGone
    /\ NoOperation
    /\ UNCHANGED <<regvars, closed, last_notification, itervars, cur_cb, src_failed,
                   last_event, runvars, cut_short, observe, scope>>

\* the executing callback returns
CallbackReturn ==
    /\ Top = "callback"
    /\ stack' = Pop(stack)
    /\ cur_cb' = ""
    /\ NoOperation
    /\ UNCHANGED <<regvars, closed, last_notification, itervars, loopvars, result,
                   src_failed, last_event, runvars, cut_short, observe, scope>>

\* variant: the loop catches the error of a callback and goes on
CallbackRaise_isolated ==
    /\ Top = "callback"
    /\ stack' = Pop(stack)
    /\ result' = "CallbackError"
    /\ cur_cb' = ""
    /\ NoOperation
    /\ UNCHANGED <<regvars, closed, last_notification, itervars, loopvars, src_failed,
                   last_event, runvars, cut_short, observe, scope>>

\* the executing callback raises: nothing catches it, the host's call ends
CallbackRaise ==
    /\ Top = "callback"
    /\ stack' = <<>>
    /\ result' = "CallbackError"
    /\ cut_short' = (Remaining # {})
    /\ cur_cb' = ""
    /\ LoopGone
    /\ IterGone
    /\ EndOfCall
    /\ NoOperation
    /\ UNCHANGED <<regvars, closed, last_notification, src_failed, last_event, observe, scope>>

\* start: the generator yields a notification; it is recorded as `recorded`
\* and its channel's callbacks are executed
Dispatch(channel, payload, recorded) ==
    /\ stack = <<"start">>
    /\ ~closed
    /\ nevents < MaxEvents
    /\ last_notification' = recorded
    /\ last_event' = <<channel, payload>>
    /\ nevents' = nevents + 1
    /\ ev_watched' = IF watched # None /\ watched[1] = channel
                     THEN ev_watched + 1 ELSE ev_watched
    /\ calls' = IF nevents = 0 THEN 0 ELSE calls
    /\ cb_calls' = 0
    /\ pass_done' = FALSE
    /\ due' = (watched # None /\ watched[1] = channel /\ status = "new")
    /\ quiet' = FALSE
    /\ Enter(channel, stack)
    /\ NoOperation
    /\ UNCHANGED <<regvars, closed, itervars, cur_cb, src_failed, watched, status,
                   pass_mutated, after_close, cut_short, observe, scope>>

\* variant: the next notification is taken as soon as it is there, also between
\* two callbacks of the event before it, whose dispatch is given up
Receive_eager(channel, payload) ==
    /\ InStart /\ ~InInitialPass
    /\ Top \in {"start", "execute_callbacks"}
    /\ ~closed
    /\ nevents < MaxEvents
    /\ last_notification' = <<channel, payload>>
    /\ last_event' = <<channel, payload>>
    /\ nevents' = nevents + 1
    /\ ev_watched' = IF watched # None /\ watched[1] = channel
                     THEN ev_watched + 1 ELSE ev_watched
    /\ calls' = IF nevents = 0 THEN 0 ELSE calls
    /\ cb_calls' = 0
    /\ pass_done' = FALSE
    /\ due' = (watched # None /\ watched[1] = channel /\ status = "new")
    /\ quiet' = FALSE
    /\ IF channel \in DOMAIN callbacks
       THEN Enter(channel, <<"start">>)
       ELSE stack' = <<"start">> /\ result' = "running" /\ LoopGone
    /\ NoOperation
    /\ UNCHANGED <<regvars, closed, itervars, cur_cb, src_failed, watched, status,
                   pass_mutated, after_close, cut_short, observe, scope>>

\* variant: the notification is not recorded before its callbacks run
Receive_late(channel, payload) == Dispatch(channel, payload, last_notification)

Receive(channel, payload) == Dispatch(channel, payload, <<channel, payload>>)

\* start: the generator raises (the connection is closed or broken)
ReceiveFail ==
    /\ stack = <<"start">>
    /\ stack' = <<>>
    /\ result' = "OperationalError"
    /\ src_failed' = (src_failed \/ ~closed)
    /\ EndOfCall
    /\ NoOperation
    /\ UNCHANGED <<regvars, closed, last_notification, itervars, loopvars, cur_cb,
                   last_event, cut_short, observe, scope>>

\* start: the generator is exhausted, the for loop ends and start returns
StreamEnd ==
    /\ stack = <<"start">>
    /\ ~closed
    /\ stack' = <<>>
    /\ result' = "returned"
    /\ EndOfCall
    /\ NoOperation
    /\ UNCHANGED <<regvars, closed, last_notification, itervars, loopvars, cur_cb,
                   src_failed, last_event, cut_short, observe, scope>>

(* --------------------------- specification ------------------------------ *)

\* the listener as __init__ leaves it
Constructed ==
    /\ callbacks = <<>>
    /\ key_order = <<>>
    /\ listening = {}
    /\ closed = FALSE
    /\ last_notification = None
    /\ stack = <<>>
    /\ di_used = 0
    /\ di_pos = 0
    /\ di_dirty = FALSE
    /\ cur_channel = ""
    /\ copy = {}
    /\ visited = {}
    /\ cur_cb = ""
    /\ result = "none"
    /\ src_failed = FALSE
    /\ last_op = NoOp
    /\ sent = <<>>
    /\ last_event = None
    /\ begin_set = {}
    /\ invoked = NoInvoked
    /\ nevents = 0
    /\ watched = None
    /\ status = "other"
    /\ calls = 0
    /\ cb_calls = 0
    /\ ev_watched = 0
    /\ pass_mutated = FALSE
    /\ pass_done = FALSE
    /\ due = FALSE
    /\ quiet = FALSE
    /\ after_close = FALSE
    /\ scope = "none"
    /\ cut_short = FALSE

\* calls of the registry operations, by the host or by the executing callback;
\* oks: what the source may answer to a command
Calls(oks) ==
    \/ \E c \in Channels, f \in Callbacks, ok \in oks : Subscribe(c, f, ok)
    \/ \E c \in Channels, f \in Callbacks, ok \in oks : UnsubscribeOne(c, f, ok)
    \/ \E c \in Channels, ok \in oks : UnsubscribeChannel(c, ok)
    \/ \E fail_at \in {0} \cup {i \in 1..Cardinality(Channels) : FALSE \in oks} :
          UnsubscribeAll(fail_at)

\* calls of start and of the execute functions, and their steps
Runs ==
    \/ \E initial_run \in BOOLEAN, p \in Watchable : Start(initial_run, p)
    \/ ExecuteAll
    \/ \E c \in Channels : Execute(c)
    \/ AllNext
    \/ \E f \in Callbacks : Invoke(f)
    \/ ExecuteDone
    \/ CallbackReturn
    \/ CallbackRaise
    \/ ReceiveFail
    \/ StreamEnd

Events == \E c \in Channels, payload \in Payloads : Receive(c, payload)

Next == Calls(BOOLEAN) \/ Close \/ Runs \/ Events

\* the program, with none of the optional histories recorded
Init == Constructed /\ observe = "none"

Spec == Init /\ [][Next]_vars

\* the same program, observed on the outcome of each registry operation
InitOps == Constructed /\ observe = "ops"

\* ... while the stream delivers no event
NextOps == Calls(BOOLEAN) \/ Close \/ Runs

SpecOps == InitOps /\ [][NextOps]_vars

\* the same program, each call of start observed on one (channel, callback)
InitPairs == Constructed /\ observe = "pairs"

\* ... while the connection stays open and the source accepts every command
NextPairs == Calls({TRUE}) \/ Runs \/ Events

SpecPairs == InitPairs /\ [][NextPairs]_vars

\* the listener used through `with`: it is closed by __exit__ only
ExcTypes == {"None", "CallbackError", "OperationalError", "RuntimeError"}

Scoped == ContextEnter \/ \E exc_type \in ExcTypes : ContextExit(exc_type)

NextScoped == Calls({TRUE}) \/ Runs \/ Events \/ Scoped

SpecScoped == Init /\ [][NextScoped]_vars


(* ------------------------------ properties ------------------------------ *)

\* C1: while the connection is open and the source has never failed, a
\* channel is a key of the registry iff the source has an active subscription
\* for it, and iff its callback set is non-empty -- in every state, also in
\* the middle of a dispatch.
C1_RegistryInvariant ==
    (~closed /\ ~src_failed) =>
        \A c \in Channels :
            /\ (c \in DOMAIN callbacks) <=> (c \in listening)
            /\ (c \in DOMAIN callbacks) <=> (c \in DOMAIN callbacks /\ callbacks[c] # {})

\* a callback handling an event of ch1 has removed ch1 while ch2 stays subscribed
C1_Witness ==
    /\ ~closed /\ ~src_failed
    /\ InEvent /\ Top = "callback" /\ cur_channel = "ch1"
    /\ DOMAIN callbacks = {"ch2"}
    /\ listening = {"ch2"}

\* C2: when the dispatch of a stream event ends without a callback raising,
\* each callback that was in the channel's set when the dispatch began has
\* been invoked exactly once and no other callback has been invoked, whatever
\* the callbacks did to the registry; and no step of the dispatch ends in a
\* RuntimeError (concurrent modification).
C2_EventSnapshot ==
    [][/\ InEvent => result' # "RuntimeError"
       /\ (InEvent /\ Top = "execute_callbacks" /\ stack' = <<"start">>)
            => \A f \in Callbacks : invoked[f] = (IF f \in begin_set THEN 1 ELSE 0)
      ]_vars

\* the dispatch of an event to {f, g} is complete, both were invoked once,
\* and meanwhile the channel has been removed from the registry
C2_Witness ==
    /\ InEvent /\ Top = "execute_callbacks" /\ visited = copy
    /\ begin_set = {"f", "g"}
    /\ invoked = [f \in Callbacks |-> 1]
    /\ cur_channel \notin DOMAIN callbacks

\* C3: a callback that unsubscribed itself while handling an event is not
\* invoked for that channel again until it is subscribed again, and its
\* unsubscribing does not end the dispatch; a callback that a callback
\* subscribed to channel c during an event has been invoked when the dispatch
\* of the next event of c is complete.
C3_NextEvent ==
    [][/\ (InEvent /\ Top = "execute_callbacks" /\ Top' = "callback"
           /\ watched = <<cur_channel, cur_cb'>>)
            => status # "self_removed"
       /\ (status # "self_removed" /\ status' = "self_removed")
            => (stack' = stack /\ result' = "running")
       /\ stack' = <<"start">> => ~due'
      ]_vars

\* a later event of the channel has been dispatched without the callback that
\* had unsubscribed itself
C3_Witness ==
    /\ InEvent /\ Top = "execute_callbacks" /\ Remaining = {}
    /\ watched # None /\ watched[1] = cur_channel
    /\ status = "self_removed"
    /\ invoked[watched[2]] = 0
    /\ begin_set # {}

C5_NotFound ==
    [][last_op'.name \in {"unsubscribe_from_channel", "unsubscribe_channel"} =>
         LET c == last_op'.channel
             f == last_op'.callback
             missing == \/ c \notin DOMAIN callbacks
                        \/ /\ last_op'.name = "unsubscribe_from_channel"
                           /\ f \notin callbacks[c]
         IN  /\ missing => last_op'.error = "KeyError"
             /\ last_op'.error = "KeyError" =>
                    /\ missing
                    /\ callbacks' = callbacks
                    /\ key_order' = key_order
                    /\ listening' = listening
                    /\ sent' = <<>>
      ]_vars

\* unsubscribe_from_channel has just failed for a callback that is not in the
\* set of a subscribed channel
C5_Witness ==
    /\ last_op.name = "unsubscribe_from_channel"
    /\ last_op.error = "KeyError"
    /\ last_op.channel \in DOMAIN callbacks
    /\ callbacks[last_op.channel] # {}

\* C6: the step in which a callback raises ends the host's call of start or
\* execute_*: no frame is left, so no other callback of the pass or of the
\* event is invoked and no further event is received by that call.
C6_FailFast ==
    [][(Top = "callback" /\ result' = "CallbackError")
         => (stack' = <<>> /\ nevents' = 0 /\ last_notification' = last_notification)
      ]_vars

\* start has ended in the error of a callback while callbacks of the event's
\* snapshot were still to be called
C6_Witness ==
    /\ result = "CallbackError" /\ cut_short
    /\ stack = <<>>
    /\ last_notification # None

\* C7: last_notification is the last event start received, in every state;
\* while an event is dispatched it is an event of the channel whose callbacks
\* are running.
C7_LastNotification ==
    /\ last_notification = last_event
    /\ InEvent => (last_notification # None /\ last_notification[1] = cur_channel)

\* a callback runs for the second event, which carries a payload
C7_Witness ==
    /\ InEvent /\ Top = "callback"
    /\ nevents = 2
    /\ last_notification = <<cur_channel, "data">>

C9_ChannelIsolation ==
    Top = "callback" => cur_cb \in begin_set

\* the dispatch of an event of ch1 is complete; g, registered for ch2 only,
\* was not invoked
C9_Witness ==
    /\ InEvent /\ Top = "execute_callbacks" /\ Remaining = {}
    /\ cur_channel = "ch1" /\ begin_set = {"f"}
    /\ invoked["g"] = 0 /\ invoked["f"] = 1
    /\ Registered("ch2", "g") /\ ~Registered("ch1", "g")

\* C10: after subscribe_to_channel(c, f) has returned, f is in c's set; when
\* f was in c's set already, the call returns and leaves keys, sets and
\* subscriptions as they were and sends no command.
C10_IdempotentSubscribe ==
    [][last_op'.name = "subscribe_to_channel" =>
         LET c == last_op'.channel
             f == last_op'.callback
         IN  /\ last_op'.error = "none" => (c \in DOMAIN callbacks' /\ f \in callbacks'[c])
             /\ Registered(c, f) =>
                    /\ last_op'.error = "none"
                    /\ callbacks' = callbacks
                    /\ key_order' = key_order
                    /\ listening' = listening
                    /\ sent' = <<>>
      ]_vars

\* subscribe_to_channel has just returned for the only callback of a channel
\* without sending LISTEN, on a connection that never failed
C10_Witness ==
    /\ last_op.name = "subscribe_to_channel" /\ last_op.error = "none"
    /\ ~closed /\ ~src_failed
    /\ sent = <<>>
    /\ callbacks[last_op.channel] = {last_op.callback}

\* C11: unsubscribe_all on an open connection never ends in KeyError or
\* RuntimeError; unless the source rejects a command (OperationalError) it
\* leaves the registry without a key and has sent exactly one UNLISTEN for each
\* channel that was a key, and nothing else; on an empty registry it returns
\* and sends nothing.
C11_UnsubscribeAll ==
    [][(last_op'.name = "unsubscribe_all" /\ ~closed) =>
         /\ last_op'.error \in {"none", "OperationalError"}
         /\ DOMAIN callbacks = {} => last_op'.error = "none"
         /\ last_op'.error = "none" =>
                /\ DOMAIN callbacks' = {}
                /\ key_order' = <<>>
                /\ Len(sent') = Cardinality(DOMAIN callbacks)
                /\ \A c \in DOMAIN callbacks :
                       \E i \in DOMAIN sent' : sent'[i] = <<"UNLISTEN", c>>
                /\ listening' \cap DOMAIN callbacks = {}
      ]_vars

\* unsubscribe_all has just emptied a registry of two channels
C11_Witness ==
    /\ last_op.name = "unsubscribe_all" /\ last_op.error = "none"
    /\ ~closed
    /\ Len(sent) = 2
    /\ DOMAIN callbacks = {}

\* C12: a call of start with initial_run = False invokes no callback and runs
\* no initial pass before it has received an event; and outside an initial
\* pass, start invokes a callback only in the dispatch of an event of the
\* channel the callback is registered on.
C12_NoInitialRun ==
    [][/\ quiet => (Top' # "callback" /\ ~InInitialPass')
       /\ (InStart /\ ~InInitialPass /\ Top = "execute_callbacks" /\ Top' = "callback")
            => /\ nevents > 0
               /\ last_event[1] = cur_channel
               /\ cur_cb' \in begin_set
      ]_vars

\* start(initial_run=False) waits for its first event while both callbacks
\* are registered
C12_Witness ==
    /\ quiet /\ stack = <<"start">>
    /\ Registered("ch1", "f") /\ Registered("ch2", "g")

\* C13: on a closed connection, every call of subscribe_to_channel,
\* unsubscribe_from_channel and unsubscribe_channel, and every call of
\* unsubscribe_all on a non-empty registry, ends in the connection's error
\* (OperationalError) and leaves keys and sets as they were.
C13_UseAfterClose ==
    [][(/\ closed
        /\ \/ last_op'.name \in {"subscribe_to_channel", "unsubscribe_from_channel",
                                 "unsubscribe_channel"}
           \/ last_op'.name = "unsubscribe_all" /\ DOMAIN callbacks # {})
         => /\ last_op'.error = "OperationalError"
            /\ callbacks' = callbacks
            /\ key_order' = key_order
      ]_vars

\* C14: a call of start made on a closed connection invokes no callback, and
\* when it ends it ends in the connection's error (OperationalError).
C14_ClosedTerminal ==
    [][after_close =>
         /\ Top' # "callback"
         /\ stack' = <<>> => result' = "OperationalError"
      ]_vars

\* C15: once the `with` block of the listener has been left -- at its normal
\* end or with the error a call of start ended in -- the connection is closed.
C15_ScopedClose ==
    scope = "left" => closed

\* the block was left by the error of a callback that start propagated, and
\* the connection is closed
C15_Witness ==
    /\ scope = "left" /\ closed
    /\ result = "CallbackError"
    /\ last_notification # None

\* C16: the registry has no key when the listener is constructed, and the
\* step that closes the connection leaves the registry without a key and the
\* source without a subscription.
C16_Teardown ==
    /\ DOMAIN callbacks = {}
    /\ [][(~closed /\ closed') => (DOMAIN callbacks' = {} /\ listening' = {})]_vars

\* C17: while the connection is open, every key of the registry is a channel
\* the source has an active subscription for -- also in the state a failed
\* LISTEN leaves behind.
C17_ListenBeforeKey ==
    ~closed => \A c \in DOMAIN callbacks : c \in listening

\* C18: no step of the initial pass of start ends in RuntimeError, whatever
\* the callbacks of the pass subscribed or unsubscribed.
C18_ReentrantInitialPass ==
    [][InInitialPass => result' # "RuntimeError"]_vars

\* C19: start receives an event only while no dispatch is in progress (its
\* frame is the only one on the stack, so every callback invoked for the
\* event before has returned), and a dispatch in progress is the dispatch of
\* the event received last: events are dispatched one at a time in the order
\* they are received.
C19_SequentialDispatch ==
    [][/\ nevents' = nevents + 1 => stack = <<"start">>
       /\ InEvent' => (last_event' # None /\ cur_channel' = last_event'[1])
      ]_vars

\* the dispatch of the second event, of ch2, is complete: both callbacks of
\* ch2 were invoked for it
C19_Witness ==
    /\ InEvent /\ Top = "execute_callbacks" /\ Remaining = {}
    /\ nevents = 2
    /\ cur_channel = "ch2"
    /\ invoked = [f \in Callbacks |-> 1]

\* C20: when start receives an event whose channel is no key of the registry,
\* no callback is invoked and no error is raised: the step leaves start
\* running, with its frame alone on the stack, ready for the next event.
C20_MissingChannel ==
    [][(nevents' = nevents + 1 /\ last_event'[1] \notin DOMAIN callbacks)
         => (stack' = <<"start">> /\ result' = "running" /\ UNCHANGED regvars)
      ]_vars

\* start has received a first event of ch2 while only ch1 is registered, and
\* goes on
C20_Witness ==
    /\ stack = <<"start">> /\ result = "running"
    /\ nevents = 1
    /\ last_event # None /\ last_event[1] = "ch2"
    /\ DOMAIN callbacks = {"ch1"}
    /\ ~closed

\* C21: when the source rejects the UNLISTEN of unsubscribe_channel(c), or of
\* an unsubscribe_from_channel(c, f) that removes c's last callback, on an open
\* connection that is subscribed to c, the call ends in the error and c still
\* is a key of the registry: no channel the source is subscribed to lacks its
\* key.
C21_UnsubscribeAtomic ==
    [][(/\ ~closed
        /\ last_op'.name \in {"unsubscribe_channel", "unsubscribe_from_channel"}
        /\ last_op'.error = "OperationalError"
        /\ last_op'.channel \in listening)
         => /\ last_op'.channel \in DOMAIN callbacks'
            /\ listening' \subseteq DOMAIN callbacks'
      ]_vars

====
